---- MODULE Spec2Model ----
(***************************************************************************)
(* Transaction & Savings-Goal state engine of begded-planner.              *)
(*                                                                         *)
(* Two stores are modelled:                                                *)
(*   - the Savings Goal Store (SavingsProvider and the two components      *)
(*     that drive it, src/app/expenses/index.tsx:1236-1621), together with *)
(*     the AsyncStorage key it persists to;                                *)
(*   - the Transaction Store (TransactionProvider, src/unnamed/part_002)   *)
(*     with the add form and the delete dialog of the expenses screen, and *)
(*     the expenses screen's derivations from it: the display list         *)
(*     (processedTransactions) and the analytics.                          *)
(*                                                                         *)
(* Amounts are JavaScript numbers.  A number is modelled as a record       *)
(* [k, v]: k = "num" with the value v (in whole currency units), k = "nan" *)
(* for NaN and k = "null" for the JSON null that JSON.stringify writes for *)
(* NaN.  All arithmetic goes through the Js* operators below, which follow *)
(* the ECMAScript rules for these three kinds.                             *)
(***************************************************************************)
EXTENDS Integers, Sequences, FiniteSets, TLC

\* ---------------------------------------------------------------- bounds
\* longest goal list the add form is allowed to build
MaxGoals == 2
\* most AsyncStorage.setItem calls in flight at once
MaxInflight == 2
\* last reading of the clock (Date.now() runs over 1..MaxClock)
MaxClock == 2
\* most "Delete Goal" dialogs open at once
MaxDialogs == 1
\* most "Delete Transaction" dialogs open at once (a double tap opens two)
MaxTxDialogs == 2
\* number of identifiers uuid() can hand out
MaxUuid == 3
\* number of handler runs and callbacks a behaviour goes through
MaxSteps == 8
\* number of those that are taps and submissions on the two transaction screens
MaxTaps == 6

VARIABLES
    savingsGoals,   \* useState<SavingsGoal[]>           (index.tsx:1258)
    isLoading,      \* useState(true)                     (index.tsx:1259)
    storage,        \* AsyncStorage value under STORAGE_KEY
    writes,         \* setItem calls issued and not yet settled, oldest first
    dialogs,        \* open "Delete Goal" confirm dialogs (goal ids), oldest first
    rejected,       \* some setItem call has been rejected so far
    now,            \* the clock read by Date.now() / new Date()
    transactions,   \* useState<Transaction[]>            (part_002:73)
    issued,         \* identifiers uuid() has handed out
    txDialogs,      \* open "Delete Transaction" confirm dialogs (tx ids)
    searchQuery,    \* useState('')                        (index.tsx:29)
    filterType,     \* useState<FilterType>('all')         (index.tsx:30)
    sortType,       \* useState<SortType>('newest')        (index.tsx:31)
    stale,          \* ExpensesScreen has a render to do (a dependency changed)
    user,           \* useState<User | null>(null)          (part_002:27)
    tabTransactions, \* the TransactionProvider of TabLayout ((tabs)/_layout.tsx:32)
    last,           \* the handler that ran last, its arguments and its Alert
    steps           \* handler runs and callbacks so far

svVars == <<savingsGoals, isLoading, storage, writes, dialogs, rejected>>
viewVars == <<searchQuery, filterType, sortType, stale>>
authVars == <<user, tabTransactions>>
txVars == <<transactions, issued, txDialogs, searchQuery, filterType, sortType, stale,
            user, tabTransactions>>
vars == <<savingsGoals, isLoading, storage, writes, dialogs, rejected, now,
          transactions, issued, txDialogs, searchQuery, filterType, sortType, stale,
          user, tabTransactions, last, steps>>

\* ------------------------------------------------------ JavaScript values
Num(n) == [k |-> "num", v |-> n]
NaN == [k |-> "nan", v |-> 0]
Null == [k |-> "null", v |-> 0]

\* ToNumber: null converts to +0, numbers and NaN to themselves
ToNumber(x) == IF x.k = "null" THEN Num(0) ELSE x

\* a + b on numbers (null operands are converted by ToNumber)
JsAdd(a, b) ==
    LET x == ToNumber(a)
        y == ToNumber(b)
    IN IF x.k = "nan" \/ y.k = "nan" THEN NaN ELSE Num(x.v + y.v)

\* a <= b: false as soon as one side is NaN
JsLe(a, b) ==
    LET x == ToNumber(a)
        y == ToNumber(b)
    IN x.k = "num" /\ y.k = "num" /\ x.v <= y.v

\* a >= b
JsGe(a, b) == JsLe(b, a)

\* Math.min(a, b): NaN as soon as one argument is NaN
MathMin(a, b) ==
    LET x == ToNumber(a)
        y == ToNumber(b)
    IN IF x.k = "nan" \/ y.k = "nan" THEN NaN
       ELSE IF x.v <= y.v THEN x ELSE y

\* parseFloat on the texts the forms are fed with
parseFloat(text) ==
    CASE text = "0" -> Num(0)
      [] text = "-1" -> Num(0 - 1)
      [] text = "1" -> Num(1)
      [] text = "2" -> Num(2)
      [] text = "3" -> Num(3)
      [] text = "5" -> Num(5)
      [] text = "9" -> Num(9)
      [] OTHER -> NaN

\* isNaN(x)
isNaN(x) == ToNumber(x).k = "nan"

\* String.prototype.trim on the texts the forms are fed with
trim(text) ==
    CASE text = " " -> ""
      [] text = " Tea " -> "Tea"
      [] OTHER -> text

\* Number.prototype.toString / Date.now().toString()
toString(n) ==
    CASE n = 1 -> "1"
      [] n = 2 -> "2"
      [] n = 3 -> "3"
      [] n = 4 -> "4"
      [] OTHER -> "5"

\* ------------------------------------------------------------ alert texts
NoAlert == [title |-> "", message |-> ""]
Alert(t, m) == [title |-> t, message |-> m]

ErrFillAll == Alert("Error", "Please fill in all fields")
ErrTarget == Alert("Error", "Target amount must be greater than 0")
OkCreated == Alert("Success", "Savings goal created and saved successfully!")
ErrAmount == Alert("Error", "Please enter a valid amount")
OkAdded == Alert("Success", "Amount added and saved successfully!")
AskDeleteGoal == Alert("Delete Goal", "Are you sure you want to delete this savings goal?")
ErrLoad == Alert("Error", "Failed to load savings goals from storage")
ErrSave == Alert("Error", "Failed to save savings goals to storage")

\* ------------------------------------------------------- form input texts
TargetTexts == {"", "0", "-1", "2", "."}
AmountTexts == {"", "0", "-1", "1", "3", "."}
FilledForm == [title |-> "Car", targetAmount |-> "2",
               deadline |-> "2026-12-31", category |-> "Trip"]
FormData ==
    {[FilledForm EXCEPT !.targetAmount = t] : t \in TargetTexts}
    \cup {[FilledForm EXCEPT !.title = ""], [FilledForm EXCEPT !.deadline = ""],
          [FilledForm EXCEPT !.category = ""]}

\* ------------------------------------------------------------ persistence
\* what AsyncStorage holds under STORAGE_KEY: nothing, a JSON text that
\* parses to a goal list, or a text JSON.parse rejects
Absent == [kind |-> "absent", goals |-> <<>>]
Json(goals) == [kind |-> "json", goals |-> goals]
Malformed == [kind |-> "malformed", goals |-> <<>>]

\* JSON.stringify of one number: NaN is written as null
StringifyNumber(x) == IF x.k = "nan" THEN Null ELSE x

\* JSON.stringify(goals): the text is kept as the value JSON.parse gives back
JSONStringify(goals) ==
    Json([i \in DOMAIN goals |->
            [goals[i] EXCEPT !.targetAmount = StringifyNumber(@),
                             !.currentAmount = StringifyNumber(@)]])

\* JSON.parse(text) for a text that parses
JSONParse(payload) == payload.goals

\* ------------------------------------------------- SavingsProvider (pure)
\* addSavingsGoal: prev => [goal, ...prev]
addSavingsGoal(prev, goal) == <<goal>> \o prev

\* updateSavingsGoal without the Math.min clamp
updateSavingsGoalUnclamped(prev, id, amount) ==
    [i \in DOMAIN prev |->
        IF prev[i].id = id
        THEN [prev[i] EXCEPT !.currentAmount = JsAdd(prev[i].currentAmount, amount)]
        ELSE prev[i]]

\* updateSavingsGoal: prev.map(goal => goal.id === id ? {...} : goal)
updateSavingsGoal(prev, id, amount) ==
    [i \in DOMAIN prev |->
        IF prev[i].id = id
        THEN [prev[i] EXCEPT !.currentAmount =
                 MathMin(prev[i].targetAmount, JsAdd(prev[i].currentAmount, amount))]
        ELSE prev[i]]

\* prev.filter(goal => goal.id !== id)
RECURSIVE filterOutId(_, _)
filterOutId(prev, id) ==
    IF prev = <<>> THEN <<>>
    ELSE IF Head(prev).id # id
         THEN <<Head(prev)>> \o filterOutId(Tail(prev), id)
         ELSE filterOutId(Tail(prev), id)

\* the "Delete" button's updater with the filter keeping every goal
removeSavingsGoalKeepsAll(prev, id) == prev

\* the state updater of deleteSavingsGoal's "Delete" button
removeSavingsGoal(prev, id) == filterOutId(prev, id)

\* the save effect without its isLoading test
saveEffectUngated(loading, goals, inflight) == Append(inflight, JSONStringify(goals))

\* the save effect skipping an empty list
saveEffectSkipsEmpty(loading, goals, inflight) ==
    IF ~loading /\ goals # <<>> THEN Append(inflight, JSONStringify(goals)) ELSE inflight

\* the save effect: if (!isLoading) saveSavingsGoals(savingsGoals), which
\* issues AsyncStorage.setItem(STORAGE_KEY, JSON.stringify(goals))
saveEffect(loading, goals, inflight) ==
    IF ~loading THEN Append(inflight, JSONStringify(goals)) ELSE inflight

\* ------------------------------------------------------- SavingsGoalCard
\* the value of a division by zero that is not 0 / 0
Infinity == [k |-> "inf", v |-> 0]

\* (a / b) * 100; with the amounts of the model the result is a whole number
JsPercent(a, b) ==
    IF ToNumber(a).k = "nan" \/ ToNumber(b).k = "nan" THEN NaN
    ELSE IF ToNumber(b).v = 0 THEN (IF ToNumber(a).v = 0 THEN NaN ELSE Infinity)
    ELSE Num((ToNumber(a).v * 100) \div ToNumber(b).v)

\* SavingsGoalCard: progress = (goal.currentAmount / goal.targetAmount) * 100
progress(goal) == JsPercent(goal.currentAmount, goal.targetAmount)

\* SavingsGoalCard: remaining = goal.targetAmount - goal.currentAmount
remaining(goal) ==
    IF ToNumber(goal.targetAmount).k = "nan" \/ ToNumber(goal.currentAmount).k = "nan"
    THEN NaN
    ELSE Num(ToNumber(goal.targetAmount).v - ToNumber(goal.currentAmount).v)

\* isCompleted = goal.currentAmount >= goal.targetAmount
isCompleted(goal) == JsGe(goal.currentAmount, goal.targetAmount)

\* goal.currentAmount.toFixed(2) and goal.targetAmount.toFixed(2) throw a
\* TypeError on null, which takes the screen down
cardThrows(goal) == goal.currentAmount.k = "null" \/ goal.targetAmount.k = "null"

\* SavingsGoalsList renders a card per goal once isLoading is false
renderThrows(loading, goals) ==
    ~loading /\ \E i \in DOMAIN goals : cardThrows(goals[i])

\* SavingsGoalsList showing every goal while the load is still running
goalsRenderedWhileLoading(loading, goals) == goals

\* the goals SavingsGoalsList puts on screen: none while isLoading (the
\* "Loading your savings goals..." view), otherwise a card per goal
goalsRendered(loading, goals) == IF loading THEN <<>> ELSE goals

\* the cards are on screen and can be pressed
cardsShown == ~isLoading /\ ~renderThrows(isLoading, savingsGoals) /\ dialogs = <<>>

\* the add form is on screen and can be pressed
formShown == ~renderThrows(isLoading, savingsGoals) /\ dialogs = <<>>

\* what `last` records: the handler, the id and amount it was given (NoId and
\* NoAmount when it takes none) and the Alert it raised
NoId == ""
NoAmount == [k |-> "none", v |-> 0]
Event(op, id, amount, alert) == [op |-> op, id |-> id, amount |-> amount, alert |-> alert]

\* the sequence s without its i-th element
RemoveAt(s, i) == SubSeq(s, 1, i - 1) \o SubSeq(s, i + 1, Len(s))

\* ------------------------------------------------------------ AuthContext
\* user === null
NoUser == [username |-> "", role |-> "none"]

DUMMY_USERS ==
    {[username |-> "user1", role |-> "user"], [username |-> "admin1", role |-> "admin"]}

PASSWORDS(username) ==
    CASE username = "user1" -> "1234"
      [] username = "admin1" -> "admin123"
      [] OTHER -> "undefined"

\* login's test: found && PASSWORDS[found.username] === password
found(username, password) ==
    {u \in DUMMY_USERS : u.username = username /\ PASSWORDS(u.username) = password}

\* the user state after login(username, password)
login(prev, username, password) ==
    IF found(username, password) # {}
    THEN CHOOSE u \in found(username, password) : TRUE
    ELSE prev

\* logout: setUser(null)
logout == NoUser

\* the TransactionProvider inside TabLayout is not mounted
Unmounted == [mounted |-> FALSE, transactions |-> <<>>]

\* TabLayout rendered for the user u: null unless u is a plain user, else the
\* provider, which is created with useState([]) when it was not there
tabLayout(u, prev) ==
    IF u.role # "user" THEN Unmounted
    ELSE IF prev.mounted THEN prev
    ELSE [mounted |-> TRUE, transactions |-> <<>>]

\* what useTransactions() gives a screen under TabLayout: the state of the
\* nearest provider
tabScreenTransactions == tabTransactions.transactions

\* ------------------------------------------------------------------ Init
Init ==
    /\ savingsGoals = <<>>
    /\ isLoading = TRUE
    /\ storage \in {Absent, Malformed}
    /\ writes = <<>>
    /\ dialogs = <<>>
    /\ rejected = FALSE
    /\ now = 1
    /\ transactions = <<>>
    /\ issued = {}
    /\ txDialogs = <<>>
    /\ searchQuery = ""
    /\ filterType = "all"
    /\ sortType = "newest"
    /\ stale = FALSE
    /\ user = NoUser
    /\ tabTransactions = Unmounted
    /\ last = Event("mount", NoId, NoAmount, NoAlert)
    /\ steps = 0

\* one more handler run or callback, within the bound
Step == steps < MaxSteps /\ steps' = steps + 1

\* one more tap or submission on the transaction screens, within the bound
Tap == steps < MaxTaps /\ steps' = steps + 1

\* ------------------------------------------- Savings Goal Store: actions
\* the goal AddSavingsGoalForm.handleSubmit builds from the form
newGoal(form) ==
    [id |-> toString(now),
     title |-> form.title,
     targetAmount |-> parseFloat(form.targetAmount),
     currentAmount |-> Num(0),
     deadline |-> form.deadline,
     category |-> form.category]

\* handleSubmit's first check: a field is the empty string
missingField(form) ==
    form.title = "" \/ form.targetAmount = "" \/ form.deadline = "" \/ form.category = ""

\* handleSubmit's second check with < in place of <=
targetRejectedBelowZero(form) ==
    LET t == parseFloat(form.targetAmount) IN t.k = "num" /\ t.v < 0

\* handleSubmit's second check: parseFloat(formData.targetAmount) <= 0
targetRejected(form) == JsLe(parseFloat(form.targetAmount), Num(0))

\* AddSavingsGoalForm.handleSubmit
HandleSubmit(form) ==
    /\ Step
    /\ formShown
    /\ IF missingField(form)
       THEN /\ last' = Event("handleSubmit", NoId, NoAmount, ErrFillAll)
            /\ UNCHANGED <<savingsGoals, writes>>
       ELSE IF targetRejected(form)
       THEN /\ last' = Event("handleSubmit", NoId, NoAmount, ErrTarget)
            /\ UNCHANGED <<savingsGoals, writes>>
       ELSE /\ Len(savingsGoals) < MaxGoals
            /\ isLoading \/ Len(writes) < MaxInflight
            /\ savingsGoals' = addSavingsGoal(savingsGoals, newGoal(form))
            /\ writes' = saveEffect(isLoading, savingsGoals', writes)
            /\ last' = Event("handleSubmit", toString(now),
                             parseFloat(form.targetAmount), OkCreated)
    /\ UNCHANGED <<isLoading, storage, dialogs, rejected, now, txVars>>

\* handleAddMoney's check with < in place of <=
amountRejectedBelowZero(text) ==
    text = "" \/ (parseFloat(text).k = "num" /\ parseFloat(text).v < 0)

\* handleAddMoney's check: !addAmount || parseFloat(addAmount) <= 0
amountRejected(text) == text = "" \/ JsLe(parseFloat(text), Num(0))

\* SavingsGoalCard.handleAddMoney on the card of the i-th goal
HandleAddMoney(i, text) ==
    /\ Step
    /\ cardsShown
    /\ i \in DOMAIN savingsGoals
    /\ ~isCompleted(savingsGoals[i])
    /\ IF amountRejected(text)
       THEN /\ last' = Event("handleAddMoney", savingsGoals[i].id, NoAmount, ErrAmount)
            /\ UNCHANGED <<savingsGoals, writes>>
       ELSE /\ Len(writes) < MaxInflight
            /\ savingsGoals' =
                 updateSavingsGoal(savingsGoals, savingsGoals[i].id, parseFloat(text))
            /\ writes' = saveEffect(isLoading, savingsGoals', writes)
            /\ last' = Event("handleAddMoney", savingsGoals[i].id, parseFloat(text), OkAdded)
    /\ UNCHANGED <<isLoading, storage, dialogs, rejected, now, txVars>>

\* deleteSavingsGoal(id): the trash icon of the i-th card opens the dialog
DeleteSavingsGoal(i) ==
    /\ Step
    /\ ~isLoading
    /\ ~renderThrows(isLoading, savingsGoals)
    /\ i \in DOMAIN savingsGoals
    /\ Len(dialogs) < MaxDialogs
    /\ dialogs' = Append(dialogs, savingsGoals[i].id)
    /\ last' = Event("deleteSavingsGoal", savingsGoals[i].id, NoAmount, AskDeleteGoal)
    /\ UNCHANGED <<savingsGoals, isLoading, storage, writes, rejected, now, txVars>>

\* the dialog's "Delete" button
ConfirmDelete ==
    /\ Step
    /\ dialogs # <<>>
    /\ Len(writes) < MaxInflight
    /\ savingsGoals' = removeSavingsGoal(savingsGoals, dialogs[Len(dialogs)])
    /\ writes' = saveEffect(isLoading, savingsGoals', writes)
    /\ dialogs' = SubSeq(dialogs, 1, Len(dialogs) - 1)
    /\ last' = Event("confirmDelete", dialogs[Len(dialogs)], NoAmount, NoAlert)
    /\ UNCHANGED <<isLoading, storage, rejected, now, txVars>>

\* the dialog's "Cancel" button
CancelDelete ==
    /\ Step
    /\ dialogs # <<>>
    /\ dialogs' = SubSeq(dialogs, 1, Len(dialogs) - 1)
    /\ last' = Event("cancelDelete", dialogs[Len(dialogs)], NoAmount, NoAlert)
    /\ UNCHANGED <<savingsGoals, isLoading, storage, writes, rejected, now, txVars>>

\* the goal list loadSavingsGoals leaves when getItem resolved with `stored`
loadedGoals(prev, stored) ==
    IF stored.kind = "json" THEN JSONParse(stored) ELSE prev

\* loadSavingsGoals with the parse error swallowed
loadAlertSwallowed(stored) == NoAlert

\* the Alert loadSavingsGoals raises when getItem resolved with `stored`
loadAlert(stored) == IF stored.kind = "malformed" THEN ErrLoad ELSE NoAlert

\* the Alert of loadSavingsGoals' catch block when getItem rejects
loadCatch == ErrLoad

\* saveSavingsGoals with the write error only logged
saveCatchSilent == NoAlert

\* the Alert of saveSavingsGoals' catch block
saveCatch == ErrSave

\* what the render after load commits: the save effect runs unless a card threw
afterLoad(goals, inflight) ==
    IF renderThrows(FALSE, goals) THEN inflight ELSE saveEffect(FALSE, goals, inflight)

\* loadSavingsGoals, from the point where AsyncStorage.getItem resolves
LoadResolve ==
    /\ Step
    /\ isLoading
    /\ Len(writes) < MaxInflight
    /\ savingsGoals' = loadedGoals(savingsGoals, storage)
    /\ isLoading' = FALSE
    /\ writes' = afterLoad(savingsGoals', writes)
    /\ last' = Event("loadResolve", NoId, NoAmount, loadAlert(storage))
    /\ UNCHANGED <<storage, dialogs, rejected, now, txVars>>

\* loadSavingsGoals, from the point where AsyncStorage.getItem rejects
LoadReject ==
    /\ Step
    /\ isLoading
    /\ Len(writes) < MaxInflight
    /\ isLoading' = FALSE
    /\ writes' = afterLoad(savingsGoals, writes)
    /\ last' = Event("loadReject", NoId, NoAmount, loadCatch)
    /\ UNCHANGED <<savingsGoals, storage, dialogs, rejected, now, txVars>>

\* saveSavingsGoals, from the point where the i-th setItem in flight resolves
WriteResolve(i) ==
    /\ Step
    /\ i \in DOMAIN writes
    /\ storage' = writes[i]
    /\ writes' = RemoveAt(writes, i)
    /\ last' = Event("writeResolve", NoId, NoAmount, NoAlert)
    /\ UNCHANGED <<savingsGoals, isLoading, dialogs, rejected, now, txVars>>

\* saveSavingsGoals, from the point where the i-th setItem in flight rejects
WriteReject(i) ==
    /\ Step
    /\ i \in DOMAIN writes
    /\ writes' = RemoveAt(writes, i)
    /\ rejected' = TRUE
    /\ last' = Event("writeReject", NoId, NoAmount, saveCatch)
    /\ UNCHANGED <<savingsGoals, isLoading, storage, dialogs, now, txVars>>

\* SavingsGoalsScreen is mounted anew (the screen is reopened, the app is
\* restarted): useState initial values, and the load effect runs again
Mount ==
    /\ Step
    /\ dialogs = <<>>
    /\ savingsGoals' = <<>>
    /\ isLoading' = TRUE
    /\ last' = Event("mount", NoId, NoAmount, NoAlert)
    /\ UNCHANGED <<storage, writes, dialogs, rejected, now, txVars>>

\* the clock advances
Tick ==
    /\ Step
    /\ now < MaxClock
    /\ now' = now + 1
    /\ last' = Event("tick", NoId, NoAmount, NoAlert)
    /\ UNCHANGED <<svVars, txVars>>

\* ---------------------------------------------- Transaction Store (pure)
\* addTransaction appending: prev => [...prev, tx]
addTransactionAtTail(prev, tx) == Append(prev, tx)

\* addTransaction: prev => [tx, ...prev]
addTransaction(prev, tx) == <<tx>> \o prev

\* deleteTransaction with the test turned round: prev.filter(tx => tx.id === id)
deleteTransactionKeepsMatch(prev, id) == SelectSeq(prev, LAMBDA tx : tx.id = id)

\* deleteTransaction: prev => prev.filter(tx => tx.id !== id)
deleteTransaction(prev, id) == filterOutId(prev, id)

\* uuid(): an identifier never handed out before (identifiers are opaque, so
\* the next unused one stands for any fresh one)
uuid(used) == toString(Cardinality(used) + 1)

\* new Date().toLocaleDateString() at clock reading n
toLocaleDateString(n) ==
    CASE n = 1 -> "1/1/2024"
      [] n = 2 -> "1/2/2024"
      [] n = 3 -> "1/3/2024"
      [] OTHER -> "1/4/2024"

ErrTitle == Alert("Error", "Please enter a title")
OkIncome == Alert("Success", "Income added successfully!")
OkExpense == Alert("Success", "Expense added successfully!")
AskDeleteTx == Alert("Delete Transaction", "Are you sure you want to delete")

\* what the add-transaction form is fed with
TeaForm == [title |-> " Tea ", amount |-> "5", type |-> "expense", category |-> "Food"]
RentForm == [title |-> "Rent", amount |-> "9", type |-> "expense", category |-> "Housing"]
PayForm == [title |-> "Pay", amount |-> "9", type |-> "income", category |-> "Salary"]
GiftForm == [title |-> "Gift", amount |-> "5", type |-> "income", category |-> "Other"]
FeeForm == [title |-> "Fee", amount |-> "1", type |-> "expense", category |-> "Other"]
ExpenseForm ==
    {TeaForm, RentForm, PayForm, GiftForm, FeeForm}
    \cup {[TeaForm EXCEPT !.title = t] : t \in {"", " "}}
    \cup {[PayForm EXCEPT !.amount = a] : a \in {"", "0", "-1", "."}}

\* handleSubmit's amount check without the isNaN test
expenseAmountRejectedNoNaN(form) ==
    \/ form.amount = ""
    \/ JsLe(parseFloat(form.amount), Num(0))

\* AddExpenseScreen.handleSubmit's checks
titleRejected(form) == trim(form.title) = ""
expenseAmountRejected(form) ==
    \/ form.amount = ""
    \/ isNaN(parseFloat(form.amount))
    \/ JsLe(parseFloat(form.amount), Num(0))

\* the transaction AddExpenseScreen.handleSubmit builds
newTransaction(form, id) ==
    [id |-> id,
     title |-> trim(form.title),
     amount |-> parseFloat(form.amount),
     category |-> form.category,
     type |-> form.type,
     date |-> toLocaleDateString(now)]

\* ------------------------------------------------- ExpensesScreen (pure)
\* the characters of the texts that occur as titles, categories and queries
chars(text) ==
    CASE text = "" -> <<>>
      [] text = "Tea" -> <<"T", "e", "a">>
      [] text = "Rent" -> <<"R", "e", "n", "t">>
      [] text = "Pay" -> <<"P", "a", "y">>
      [] text = "Gift" -> <<"G", "i", "f", "t">>
      [] text = "Fee" -> <<"F", "e", "e">>
      [] text = "Food" -> <<"F", "o", "o", "d">>
      [] text = "Housing" -> <<"H", "o", "u", "s", "i", "n", "g">>
      [] text = "Salary" -> <<"S", "a", "l", "a", "r", "y">>
      [] text = "Other" -> <<"O", "t", "h", "e", "r">>
      [] text = "T" -> <<"T">>
      [] OTHER -> <<"?">>

\* String.prototype.toLowerCase, character by character
toLowerCase(cs) ==
    [i \in DOMAIN cs |->
        CASE cs[i] = "A" -> "a"
          [] cs[i] = "F" -> "f"
          [] cs[i] = "G" -> "g"
          [] cs[i] = "H" -> "h"
          [] cs[i] = "O" -> "o"
          [] cs[i] = "P" -> "p"
          [] cs[i] = "R" -> "r"
          [] cs[i] = "S" -> "s"
          [] cs[i] = "T" -> "t"
          [] OTHER -> cs[i]]

\* String.prototype.includes
includes(cs, part) ==
    \E i \in 0..(Len(cs) - Len(part)) : SubSeq(cs, i + 1, i + Len(part)) = part

\* new Date(date).getTime(), in days, of the texts toLocaleDateString gives
getTime(date) ==
    CASE date = "1/1/2024" -> 1
      [] date = "1/2/2024" -> 2
      [] date = "1/3/2024" -> 3
      [] OTHER -> 4

\* a - b on two amounts of the store
JsSub(a, b) ==
    IF ToNumber(a).k = "nan" \/ ToNumber(b).k = "nan" THEN NaN
    ELSE Num(ToNumber(a).v - ToNumber(b).v)

\* the search stage's test on one transaction (index.tsx:45-46)
searchMatches(t, query) ==
    \/ includes(toLowerCase(chars(t.title)), toLowerCase(chars(query)))
    \/ includes(toLowerCase(chars(t.category)), toLowerCase(chars(query)))

\* the search stage looking at the title only
searchStageTitleOnly(list, query) ==
    IF query # ""
    THEN SelectSeq(list, LAMBDA t :
             includes(toLowerCase(chars(t.title)), toLowerCase(chars(query))))
    ELSE list

\* the search stage: if (searchQuery) filtered = filtered.filter(...)
searchStage(list, query) ==
    IF query # "" THEN SelectSeq(list, LAMBDA t : searchMatches(t, query)) ELSE list

\* the type-filter stage keeping the other type
typeStageInverted(list, type) ==
    IF type # "all" THEN SelectSeq(list, LAMBDA t : t.type # type) ELSE list

\* the type-filter stage: if (filterType !== 'all') filtered = filtered.filter(...)
typeStage(list, type) ==
    IF type # "all" THEN SelectSeq(list, LAMBDA t : t.type = type) ELSE list

\* the comparator of the sort stage with 'lowest' ordering as 'highest' does
compareLowestDescending(sort, a, b) ==
    CASE sort = "newest" -> Num(getTime(b.date) - getTime(a.date))
      [] sort = "oldest" -> Num(getTime(a.date) - getTime(b.date))
      [] sort = "highest" -> JsSub(b.amount, a.amount)
      [] sort = "lowest" -> JsSub(b.amount, a.amount)
      [] OTHER -> Num(0)

\* the comparator of the sort stage (index.tsx:55-68)
compare(sort, a, b) ==
    CASE sort = "newest" -> Num(getTime(b.date) - getTime(a.date))
      [] sort = "oldest" -> Num(getTime(a.date) - getTime(b.date))
      [] sort = "highest" -> JsSub(b.amount, a.amount)
      [] sort = "lowest" -> JsSub(a.amount, b.amount)
      [] OTHER -> Num(0)

\* Array.prototype.sort puts b before a only when the comparator is > 0
\* (a NaN result counts as 0)
comesAfter(sort, a, b) == compare(sort, a, b).k = "num" /\ compare(sort, a, b).v > 0

\* x put into the sorted list behind every element it does not come before
RECURSIVE insertSorted(_, _, _)
insertSorted(sort, sorted, x) ==
    IF sorted = <<>> THEN <<x>>
    ELSE IF comesAfter(sort, sorted[Len(sorted)], x)
         THEN Append(insertSorted(sort, SubSeq(sorted, 1, Len(sorted) - 1), x),
                     sorted[Len(sorted)])
         ELSE Append(sorted, x)

\* Array.prototype.sort with the comparator: a stable sort
RECURSIVE sortStage(_, _)
sortStage(list, sort) ==
    IF list = <<>> THEN <<>>
    ELSE insertSorted(sort, sortStage(SubSeq(list, 1, Len(list) - 1), sort),
                      list[Len(list)])

\* filtered is the store's own array unless a stage has made a copy of it
sortsStoreArray(query, type) == query = "" /\ type = "all"

\* processedTransactions: the list handed to the FlatList, and the store's
\* array after filtered.sort(...) has run
processedTransactions(list, query, type, sort) ==
    [display |-> sortStage(typeStage(searchStage(list, query), type), sort),
     store |-> IF sortsStoreArray(query, type) THEN sortStage(list, sort) ELSE list]

\* sum of the amounts of a list: reduce((sum, t) => sum + t.amount, 0)
RECURSIVE sumAmounts(_)
sumAmounts(list) ==
    IF list = <<>> THEN Num(0)
    ELSE JsAdd(sumAmounts(SubSeq(list, 1, Len(list) - 1)), list[Len(list)].amount)

\* categoryStats with every amount booked as income
RECURSIVE categoryStatsAllIncome(_)
categoryStatsAllIncome(list) ==
    IF list = <<>> THEN <<>>
    ELSE LET acc == categoryStatsAllIncome(SubSeq(list, 1, Len(list) - 1))
             t == list[Len(list)]
             old == IF t.category \in DOMAIN acc THEN acc[t.category]
                    ELSE [income |-> Num(0), expense |-> Num(0)]
         IN [c \in DOMAIN acc \cup {t.category} |->
                IF c = t.category
                THEN [old EXCEPT !.income = JsAdd(old.income, t.amount)]
                ELSE acc[c]]

\* categoryStats: the reduce of index.tsx:87-93
RECURSIVE categoryStats(_)
categoryStats(list) ==
    IF list = <<>> THEN <<>>
    ELSE LET acc == categoryStats(SubSeq(list, 1, Len(list) - 1))
             t == list[Len(list)]
             old == IF t.category \in DOMAIN acc THEN acc[t.category]
                    ELSE [income |-> Num(0), expense |-> Num(0)]
         IN [c \in DOMAIN acc \cup {t.category} |->
                IF c = t.category
                THEN [old EXCEPT ![t.type] = JsAdd(old[t.type], t.amount)]
                ELSE acc[c]]

\* analytics with the expenses left out of the balance
analyticsIncomeOnly(list) ==
    [totalIncome |-> sumAmounts(SelectSeq(list, LAMBDA t : t.type = "income")),
     totalExpense |-> sumAmounts(SelectSeq(list, LAMBDA t : t.type = "expense")),
     balance |-> sumAmounts(SelectSeq(list, LAMBDA t : t.type = "income")),
     transactionCount |-> Len(list),
     categoryStats |-> categoryStats(list)]

\* analytics (index.tsx:75-102)
analytics(list) ==
    [totalIncome |-> sumAmounts(SelectSeq(list, LAMBDA t : t.type = "income")),
     totalExpense |-> sumAmounts(SelectSeq(list, LAMBDA t : t.type = "expense")),
     balance |-> JsSub(sumAmounts(SelectSeq(list, LAMBDA t : t.type = "income")),
                       sumAmounts(SelectSeq(list, LAMBDA t : t.type = "expense"))),
     transactionCount |-> Len(list),
     categoryStats |-> categoryStats(list)]

\* --------------------------------------------- Transaction Store: actions
\* AddExpenseScreen.handleSubmit
AddExpense(form) ==
    /\ Tap
    /\ ~stale
    /\ txDialogs = <<>>
    /\ IF titleRejected(form)
       THEN /\ last' = Event("addExpense", NoId, NoAmount, ErrTitle)
            /\ UNCHANGED <<transactions, issued, stale>>
       ELSE IF expenseAmountRejected(form)
       THEN /\ last' = Event("addExpense", NoId, NoAmount, ErrAmount)
            /\ UNCHANGED <<transactions, issued, stale>>
       ELSE /\ Cardinality(issued) < MaxUuid
            /\ stale' = TRUE
            /\ transactions' =
                 addTransaction(transactions, newTransaction(form, uuid(issued)))
            /\ issued' = issued \cup {uuid(issued)}
            /\ last' = Event("addExpense", uuid(issued), parseFloat(form.amount),
                             IF form.type = "income" THEN OkIncome ELSE OkExpense)
    /\ UNCHANGED <<txDialogs, searchQuery, filterType, sortType, now, svVars, authVars>>

\* the list the FlatList of ExpensesScreen shows
displayed == processedTransactions(transactions, searchQuery, filterType, sortType).display

\* ExpensesScreen.handleDelete on the i-th row shown: opens the dialog
HandleDelete(i) ==
    /\ Tap
    /\ ~stale
    /\ i \in DOMAIN displayed
    /\ Len(txDialogs) < MaxTxDialogs
    /\ txDialogs' = Append(txDialogs, displayed[i].id)
    /\ last' = Event("handleDelete", displayed[i].id, NoAmount, AskDeleteTx)
    /\ UNCHANGED <<transactions, issued, viewVars, now, svVars, authVars>>

\* the dialog's "Delete" button: deleteTransaction(id)
ConfirmTxDelete ==
    /\ Tap
    /\ ~stale
    /\ txDialogs # <<>>
    /\ transactions' = deleteTransaction(transactions, txDialogs[Len(txDialogs)])
    /\ txDialogs' = SubSeq(txDialogs, 1, Len(txDialogs) - 1)
    /\ stale' = TRUE
    /\ last' = Event("deleteTransaction", txDialogs[Len(txDialogs)], NoAmount, NoAlert)
    /\ UNCHANGED <<issued, searchQuery, filterType, sortType, now, svVars, authVars>>

\* the dialog's "Cancel" button
CancelTxDelete ==
    /\ Tap
    /\ ~stale
    /\ txDialogs # <<>>
    /\ txDialogs' = SubSeq(txDialogs, 1, Len(txDialogs) - 1)
    /\ last' = Event("cancelTxDelete", txDialogs[Len(txDialogs)], NoAmount, NoAlert)
    /\ UNCHANGED <<transactions, issued, viewVars, now, svVars, authVars>>

\* what the search box, the filter chips and the sort chips are set to
SearchTexts == {"", "T"}
FilterTypes == {"all", "income", "expense"}
SortTypes == {"newest", "oldest", "highest", "lowest"}

\* the search box: onChangeText={setSearchQuery}
SetSearchQuery(text) ==
    /\ Tap
    /\ ~stale
    /\ txDialogs = <<>>
    /\ text # searchQuery
    /\ searchQuery' = text
    /\ stale' = TRUE
    /\ last' = Event("setSearchQuery", NoId, NoAmount, NoAlert)
    /\ UNCHANGED <<transactions, issued, txDialogs, filterType, sortType, now, svVars, authVars>>

\* FilterButton: onPress={() => setFilterType(type)}
SetFilterType(type) ==
    /\ Tap
    /\ ~stale
    /\ txDialogs = <<>>
    /\ type # filterType
    /\ filterType' = type
    /\ stale' = TRUE
    /\ last' = Event("setFilterType", NoId, NoAmount, NoAlert)
    /\ UNCHANGED <<transactions, issued, txDialogs, searchQuery, sortType, now, svVars, authVars>>

\* SortButton: onPress={() => setSortType(type)}
SetSortType(type) ==
    /\ Tap
    /\ ~stale
    /\ txDialogs = <<>>
    /\ type # sortType
    /\ sortType' = type
    /\ stale' = TRUE
    /\ last' = Event("setSortType", NoId, NoAmount, NoAlert)
    /\ UNCHANGED <<transactions, issued, txDialogs, searchQuery, filterType, now, svVars, authVars>>

\* ExpensesScreen renders again after a dependency of processedTransactions
\* changed: the memo is recomputed, and filtered.sort(...) runs on the array
\* filtered refers to
Render ==
    /\ stale
    /\ transactions' =
         processedTransactions(transactions, searchQuery, filterType, sortType).store
    /\ stale' = FALSE
    /\ last' = Event("render", NoId, NoAmount, NoAlert)
    /\ UNCHANGED <<issued, txDialogs, searchQuery, filterType, sortType, now, steps, svVars, authVars>>

\* what the login form is fed with
Credentials ==
    {<<"user1", "1234">>, <<"admin1", "admin123">>, <<"user1", "admin123">>, <<"", "1234">>}

ErrCredentials == Alert("Error", "Invalid credentials")

\* LoginScreen.handleLogin
Login(username, password) ==
    /\ Tap
    /\ ~stale
    /\ user = NoUser
    /\ IF username = "" \/ password = ""
       THEN /\ last' = Event("login", NoId, NoAmount, ErrFillAll)
            /\ UNCHANGED user
       ELSE /\ user' = login(user, username, password)
            /\ last' = Event("login", username, NoAmount,
                             IF found(username, password) # {} THEN NoAlert
                             ELSE ErrCredentials)
    /\ UNCHANGED <<transactions, issued, txDialogs, viewVars, tabTransactions, now, svVars>>

\* AdminScreen.handleLogout; TabLayout, when mounted, renders null for no user
Logout ==
    /\ Tap
    /\ ~stale
    /\ user # NoUser
    /\ txDialogs = <<>>
    /\ user' = logout
    /\ tabTransactions' = Unmounted
    /\ last' = Event("logout", user.username, NoAmount, NoAlert)
    /\ UNCHANGED <<transactions, issued, txDialogs, viewVars, now, svVars>>

\* a route under (tabs) is opened: TabLayout renders
OpenTabs ==
    /\ Tap
    /\ ~stale
    /\ user # NoUser
    /\ txDialogs = <<>>
    /\ ~tabTransactions.mounted
    /\ tabTransactions' = tabLayout(user, tabTransactions)
    /\ last' = Event("openTabs", user.username, NoAmount, NoAlert)
    /\ UNCHANGED <<transactions, issued, txDialogs, viewVars, user, now, svVars>>

TxNext ==
    \/ \E form \in ExpenseForm : AddExpense(form)
    \/ \E i \in 1..MaxUuid : HandleDelete(i)
    \/ ConfirmTxDelete
    \/ CancelTxDelete
    \/ \E text \in SearchTexts : SetSearchQuery(text)
    \/ \E type \in FilterTypes : SetFilterType(type)
    \/ \E type \in SortTypes : SetSortType(type)
    \/ Render
    \/ Tick

TxSpec == Init /\ [][TxNext]_vars

\* the transaction screens used by whoever is logged in, across sessions
SessionNext ==
    \/ \E c \in Credentials : Login(c[1], c[2])
    \/ Logout
    \/ OpenTabs
    \/ user # NoUser /\ \E form \in ExpenseForm : AddExpense(form)
    \/ user # NoUser /\ \E i \in 1..MaxUuid : HandleDelete(i)
    \/ ConfirmTxDelete
    \/ CancelTxDelete
    \/ Render

SessionSpec == Init /\ [][SessionNext]_vars

Next ==
    \/ \E form \in FormData : HandleSubmit(form)
    \/ \E i \in 1..MaxGoals, text \in AmountTexts : HandleAddMoney(i, text)
    \/ \E i \in 1..MaxGoals : DeleteSavingsGoal(i)
    \/ ConfirmDelete
    \/ CancelDelete
    \/ LoadResolve
    \/ LoadReject
    \/ \E i \in 1..MaxInflight : WriteResolve(i)
    \/ \E i \in 1..MaxInflight : WriteReject(i)
    \/ Mount
    \/ Tick

Spec == Init /\ [][Next]_vars


\* =================================================================== claims
\* x is a number (neither NaN nor null) greater than 0
Positive(x) == x.k = "num" /\ x.v > 0

\* the step just taken was handleAddMoney calling updateSavingsGoal with delta > 0
Contributed == last.op = "handleAddMoney" /\ last.alert = OkAdded /\ Positive(last.amount)

\* the step just taken was handleSubmit calling addSavingsGoal
GoalAdded == last.op = "handleSubmit" /\ last.alert = OkCreated

\* the ids of a list of goals or transactions
IdsOf(list) == {list[i].id : i \in DOMAIN list}

\* C1: in every reachable state of the Savings Goal Store every goal
\* satisfies 0 <= currentAmount <= targetAmount.
C1_AmountWithinTarget ==
    \A i \in DOMAIN savingsGoals :
        /\ JsLe(Num(0), savingsGoals[i].currentAmount)
        /\ JsLe(savingsGoals[i].currentAmount, savingsGoals[i].targetAmount)

\* C2: over contribute(id, delta) calls with delta > 0, no goal's
\* currentAmount decreases from one state to the next: after the call it is
\* greater than or equal to what it was.
C2_NeverDecreases ==
    [][Contributed' =>
         /\ Len(savingsGoals') = Len(savingsGoals)
         /\ \A i \in DOMAIN savingsGoals :
                JsGe(savingsGoals'[i].currentAmount, savingsGoals[i].currentAmount)]_vars

\* the ids a goal can get, and the deltas > 0 the card can pass on
GoalIds == {toString(n) : n \in 1..MaxClock + 1}
PositiveDeltas == {parseFloat(t) : t \in {a \in AmountTexts : Positive(parseFloat(a))}}

\* min(t, c + d) as the contract states it, on the values a goal can hold
ContractMin(t, c, d) ==
    IF t.k = "num" /\ c.k = "num"
    THEN IF c.v + d.v <= t.v THEN Num(c.v + d.v) ELSE t
    ELSE NaN

\* what contribute(id, d) is to leave of the list `before`
ContributeEffect(before, after, id, d) ==
    /\ Len(after) = Len(before)
    /\ \A i \in DOMAIN before :
          IF before[i].id = id
          THEN after[i] = [before[i] EXCEPT !.currentAmount =
                              ContractMin(before[i].targetAmount,
                                          before[i].currentAmount, d)]
          ELSE after[i] = before[i]

\* C3: contribute(id, delta) with delta > 0 sets the matching goal's
\* currentAmount to min(targetAmount, currentAmount + delta) and leaves every
\* other goal, every other field and the order unchanged; with no goal of
\* that id the list is unchanged by value.
C3_ContributeEffect ==
    [][/\ Contributed' =>
            ContributeEffect(savingsGoals, savingsGoals', last'.id, last'.amount)
       /\ \A id \in GoalIds \ IdsOf(savingsGoals) :
            \A d \in PositiveDeltas :
                updateSavingsGoal(savingsGoals, id, d) = savingsGoals]_vars

\* C3 witness: a contribution of 3 was clamped to the target on one goal
\* while a goal of another id stood in the list.
C3_Witness ==
    /\ Contributed
    /\ last.amount = Num(3)
    /\ \E i, j \in DOMAIN savingsGoals :
          /\ savingsGoals[i].id = last.id
          /\ savingsGoals[i].currentAmount = Num(2)
          /\ savingsGoals[i].targetAmount = Num(2)
          /\ savingsGoals[j].id # last.id


\* the step just taken was the end of loadSavingsGoals
LoadDone == last.op \in {"loadResolve", "loadReject"}

\* C4: no setItem is issued before load() has completed: a write is issued
\* only by a step that ends with isLoading false, and a step that starts with
\* isLoading true issues one only if it is the completion of the load.
C4_NoWriteBeforeLoad ==
    [][Len(writes') > Len(writes) =>
          /\ ~isLoading'
          /\ isLoading => LoadDone']_vars

\* C4 witness: a goal was added while the load was in flight and no write
\* was issued for it.
C4_Witness == isLoading /\ GoalAdded /\ savingsGoals # <<>> /\ writes = <<>>

\* a stored number equals the number in memory (NaN is stored as null)
SameNumber(stored, x) == IF x.k = "nan" THEN stored.k = "null" ELSE stored = x

\* the payload holds the whole list: goal for goal, field for field, in order
HoldsWholeList(payload, goals) ==
    /\ payload.kind = "json"
    /\ Len(payload.goals) = Len(goals)
    /\ \A i \in DOMAIN goals :
          /\ payload.goals[i].id = goals[i].id
          /\ payload.goals[i].title = goals[i].title
          /\ payload.goals[i].deadline = goals[i].deadline
          /\ payload.goals[i].category = goals[i].category
          /\ SameNumber(payload.goals[i].targetAmount, goals[i].targetAmount)
          /\ SameNumber(payload.goals[i].currentAmount, goals[i].currentAmount)

\* the step just taken changed the goal list through the store: an add, a
\* contribution or a confirmed delete
Mutated ==
    \/ GoalAdded
    \/ last.op = "handleAddMoney" /\ last.alert = OkAdded
    \/ last.op = "confirmDelete"

\* C5: after load has completed, every mutation of the goal list (add,
\* contribute, confirmed delete) issues one write whose payload is the entire
\* goal list as it stands after the mutation.
C5_MutationWritesWholeList ==
    [][(~isLoading /\ Mutated') =>
          /\ Len(writes') = Len(writes) + 1
          /\ SubSeq(writes', 1, Len(writes)) = writes
          /\ HoldsWholeList(writes'[Len(writes')], savingsGoals')]_vars

\* C5 witness: a confirmed delete emptied the list and the write of the empty
\* list is in flight.
C5_Witness ==
    /\ last.op = "confirmDelete"
    /\ savingsGoals = <<>>
    /\ writes # <<>>
    /\ writes[Len(writes)] = Json(<<>>)
    /\ storage.kind = "json"
    /\ storage.goals # <<>>

\* C6: when a write fails the failure is reported to the user and the goal
\* list in memory keeps the mutation: no goal is changed by the failure.
C6_WriteFailureReported ==
    [][last'.op = "writeReject" =>
          /\ last'.alert.title = "Error"
          /\ last'.alert.message # ""
          /\ savingsGoals' = savingsGoals
          /\ storage' = storage]_vars

\* C6 witness: the write of an added goal failed; the goal is in memory and
\* not in storage.
C6_Witness ==
    /\ last.op = "writeReject"
    /\ savingsGoals # <<>>
    /\ writes = <<>>
    /\ ~isLoading
    /\ storage.goals = <<>>

\* the step just taken was a load that failed: the read was rejected, or the
\* payload it returned does not parse
LoadFailed ==
    \/ last.op = "loadReject"
    \/ last.op = "loadResolve" /\ storage.kind = "malformed"

\* C7 as stated: after a failed load the error has been reported and the
\* goal list in memory is empty.
C7_EmptyAfterFailedLoad ==
    LoadFailed => (last.alert.title = "Error" /\ savingsGoals = <<>>)

\* C7 amended: a failed load reports the error, completes, and leaves the
\* goal list in memory as it was (empty unless goals were added through the
\* form while the load was in flight).
C7_FailedLoadKeepsList ==
    [][LoadFailed' =>
          /\ last'.alert.title = "Error"
          /\ last'.alert.message # ""
          /\ ~isLoading'
          /\ savingsGoals' = savingsGoals]_vars

\* C7 witness: the stored payload did not parse and a goal added during the
\* load is still in the list.
C7_Witness ==
    /\ last.op = "loadResolve"
    /\ storage.kind = "malformed"
    /\ last.alert = ErrLoad
    /\ savingsGoals # <<>>

\* C8: for the goal list L of any reachable state, save(L) followed by
\* load() in a fresh store yields a list equal by value to L.
C8_RoundTrip ==
    loadedGoals(<<>>, JSONStringify(savingsGoals)) = savingsGoals


\* no id occurs twice in the list
NoDuplicateIds(list) ==
    \A i, j \in DOMAIN list : list[i].id = list[j].id => i = j

\* the step just taken was handleSubmit calling addTransaction
TransactionAdded == last.op = "addExpense" /\ last.id # NoId

C10_DeleteIdempotent ==
    [][last'.op = "deleteTransaction" =>
          /\ transactions' = SelectSeq(transactions, LAMBDA tx : tx.id # last'.id)
          /\ (last'.id \notin IdsOf(transactions) => transactions' = transactions)
          /\ deleteTransaction(transactions', last'.id) = transactions'
          /\ deleteTransaction(deleteTransaction(transactions, last'.id), last'.id)
               = deleteTransaction(transactions, last'.id)]_vars

\* C10 witness: delete(id) has removed a transaction from between two others
\* while a second dialog for the same id is still open, so that the next
\* confirmation is a delete of an absent id.
C10_Witness ==
    /\ last.op = "deleteTransaction"
    /\ Len(transactions) = 2
    /\ Cardinality(issued) = 3
    /\ last.id = "2"
    /\ txDialogs = <<last.id>>

\* the target the form asks for is a number and is not positive
NonPositiveTarget(form) ==
    /\ ~missingField(form)
    /\ parseFloat(form.targetAmount).k = "num"
    /\ parseFloat(form.targetAmount).v <= 0

\* C11: adding a savings goal whose target amount is 0 or negative is
\* rejected: the goal list is unchanged and no persistence write is issued.
C11_NonPositiveTargetRejected ==
    [][\A form \in FormData :
          (NonPositiveTarget(form) /\ HandleSubmit(form)) =>
              /\ savingsGoals' = savingsGoals
              /\ writes' = writes
              /\ storage' = storage
              /\ last'.alert = ErrTarget]_vars

\* C11 witness: after load, with a goal in the list and nothing in flight,
\* a submission was turned down for its target amount.
C11_Witness ==
    /\ last.op = "handleSubmit"
    /\ last.alert = ErrTarget
    /\ ~isLoading
    /\ savingsGoals # <<>>
    /\ writes = <<>>

\* the sum of the amounts of the transactions of the list that satisfy keep
RECURSIVE AmountsAt(_, _)
AmountsAt(list, at) ==
    IF at = {} THEN 0
    ELSE LET i == CHOOSE j \in at : TRUE IN list[i].amount.v + AmountsAt(list, at \ {i})

TotalOf(list, keep(_)) == AmountsAt(list, {i \in DOMAIN list : keep(list[i])})

\* the categories that occur in the list
CategoriesOf(list) == {list[i].category : i \in DOMAIN list}

\* the sum over the categories in cats of the type column of stats
RECURSIVE ColumnTotal(_, _, _)
ColumnTotal(stats, cats, type) ==
    IF cats = {} THEN 0
    ELSE LET c == CHOOSE d \in cats : TRUE
         IN stats[c][type].v + ColumnTotal(stats, cats \ {c}, type)

\* the step just taken was a recomputation of the expenses screen
Rendered == last.op = "render"

\* C12: analytics returns totalIncome = sum of the income amounts,
\* totalExpense = sum of the expense amounts, balance = totalIncome -
\* totalExpense and transactionCount = length of the list.
C12_AnalyticsTotals ==
    LET a == analytics(transactions)
        income == TotalOf(transactions, LAMBDA t : t.type = "income")
        expense == TotalOf(transactions, LAMBDA t : t.type = "expense")
    IN /\ a.totalIncome = Num(income)
       /\ a.totalExpense = Num(expense)
       /\ a.balance = Num(income - expense)
       /\ a.transactionCount = Len(transactions)

\* C12 witness: the screen has rendered three transactions, income and
\* expense among them, whose balance is negative.
C12_Witness ==
    /\ Rendered
    /\ Len(transactions) = 3
    /\ analytics(transactions).totalIncome.v > 0
    /\ analytics(transactions).balance.v < 0

\* categoryStats holds, for exactly the categories present, the sums of the
\* income and of the expense amounts of the category, and these add up to the
\* two totals
CategorySums ==
    LET stats == analytics(transactions).categoryStats
        present == CategoriesOf(transactions)
    IN /\ DOMAIN stats = present
       /\ \A c \in present :
             /\ stats[c].income =
                  Num(TotalOf(transactions, LAMBDA t : t.category = c /\ t.type = "income"))
             /\ stats[c].expense =
                  Num(TotalOf(transactions, LAMBDA t : t.category = c /\ t.type = "expense"))
       /\ Num(ColumnTotal(stats, present, "income")) = analytics(transactions).totalIncome
       /\ Num(ColumnTotal(stats, present, "expense")) = analytics(transactions).totalExpense

\* the step just taken changed the query of the expenses screen or recomputed
\* its display list
ViewChanged == last.op \in {"setSearchQuery", "setFilterType", "setSortType", "render"}

\* C13: categoryStats[c].income and .expense are the sums over the full store
\* of the income and expense amounts of category c, for every category
\* present; they do not change when searchQuery, filterType or sortType
\* change; summed over the categories they equal totalIncome and totalExpense.
C13_CategoryStats ==
    /\ []CategorySums
    /\ [][ViewChanged' =>
            analytics(transactions').categoryStats = analytics(transactions).categoryStats]_vars

\* C13 witness: with a search and a type filter on, the screen has rendered a
\* store in which one category holds both an income and an expense.
C13_Witness ==
    /\ Rendered
    /\ searchQuery # ""
    /\ filterType = "income"
    /\ \E c \in CategoriesOf(transactions) :
          /\ analytics(transactions).categoryStats[c].income.v > 0
          /\ analytics(transactions).categoryStats[c].expense.v > 0

\* the letter c in lower case
Lower(c) == toLowerCase(<<c>>)[1]

\* part occurs in text at some offset, letters compared without regard to case
ContainsIgnoringCase(text, part) ==
    \E off \in 0..Len(chars(text)) :
        /\ off + Len(chars(part)) <= Len(chars(text))
        /\ \A k \in 1..Len(chars(part)) :
              Lower(chars(text)[off + k]) = Lower(chars(part)[k])

\* the transaction passes the search for the query
Found(t, query) ==
    query = "" \/ ContainsIgnoringCase(t.title, query) \/ ContainsIgnoringCase(t.category, query)

\* the transaction passes the type filter
OfType(t, type) == type = "all" \/ t.type = type

\* C14: with a non-empty searchQuery the display list contains exactly the
\* transactions whose title or category contains the query as a
\* case-insensitive substring; with an empty searchQuery the search stage
\* removes no transaction.
C14_SearchStage ==
    /\ searchStage(transactions, searchQuery)
         = SelectSeq(transactions, LAMBDA t : Found(t, searchQuery))
    /\ searchQuery = "" => searchStage(transactions, searchQuery) = transactions
    /\ IdsOf(displayed) \subseteq IdsOf(searchStage(transactions, searchQuery))
    /\ filterType = "all" =>
          IdsOf(displayed) = {transactions[i].id : i \in {j \in DOMAIN transactions :
                                  Found(transactions[j], searchQuery)}}

\* C14 witness: the screen has rendered a search that keeps one transaction
\* for its title alone, keeps another for its category alone and drops a
\* third.
C14_Witness ==
    /\ Rendered
    /\ searchQuery # ""
    /\ filterType = "all"
    /\ Len(displayed) < Len(transactions)
    /\ \E i, j \in DOMAIN displayed :
          /\ ContainsIgnoringCase(displayed[i].title, searchQuery)
          /\ ~ContainsIgnoringCase(displayed[i].category, searchQuery)
          /\ ~ContainsIgnoringCase(displayed[j].title, searchQuery)
          /\ ContainsIgnoringCase(displayed[j].category, searchQuery)

\* C15: the type filter works on the search output: with filterType income
\* or expense the display list holds exactly the search-matching transactions
\* of that type, each once; with filterType all it holds every
\* search-matching transaction, each once; it is never longer than
\* transactionCount.
C15_TypeFilterStage ==
    /\ IdsOf(displayed) =
         {transactions[i].id : i \in {j \in DOMAIN transactions :
              Found(transactions[j], searchQuery) /\ OfType(transactions[j], filterType)}}
    /\ \A i \in DOMAIN displayed :
          \E j \in DOMAIN transactions : transactions[j] = displayed[i]
    /\ NoDuplicateIds(displayed)
    /\ filterType = "all" => Len(displayed) = Len(searchStage(transactions, searchQuery))
    /\ Len(displayed) <= analytics(transactions).transactionCount

\* C15 witness: the screen has rendered a search with the income filter on
\* that drops one transaction for the search and another for its type.
C15_Witness ==
    /\ Rendered
    /\ searchQuery # ""
    /\ filterType = "income"
    /\ displayed # <<>>
    /\ \E i, j \in DOMAIN transactions :
          /\ ~Found(transactions[i], searchQuery)
          /\ Found(transactions[j], searchQuery)
          /\ transactions[j].type = "expense"

\* the clock reading at which the date text of the transaction was made
DayOf(t) == CHOOSE n \in 1..(MaxClock + 1) : toLocaleDateString(n) = t.date

\* the output of the filter stage, which the sort stage is given
FilterOutput == typeStage(searchStage(transactions, searchQuery), filterType)

\* a comes no later than b in a list ordered by the sort type
InOrder(sort, a, b) ==
    CASE sort = "highest" -> a.amount.v >= b.amount.v
      [] sort = "lowest" -> a.amount.v <= b.amount.v
      [] sort = "newest" -> DayOf(a) >= DayOf(b)
      [] sort = "oldest" -> DayOf(a) <= DayOf(b)

\* C16: the display list is ordered by non-increasing amount for highest,
\* non-decreasing amount for lowest, non-increasing date for newest and
\* non-decreasing date for oldest, and is a permutation of the filter stage's
\* output.
C16_SortStage ==
    /\ \A i, j \in DOMAIN displayed :
          i < j => InOrder(sortType, displayed[i], displayed[j])
    /\ Len(displayed) = Len(FilterOutput)
    /\ {displayed[i] : i \in DOMAIN displayed} = {FilterOutput[i] : i \in DOMAIN FilterOutput}
    /\ NoDuplicateIds(displayed)

\* C16 witness: the screen has rendered three expenses by lowest amount, in
\* an order that is not the one the filter stage gave them.
C16_Witness ==
    /\ Rendered
    /\ sortType = "lowest"
    /\ filterType = "expense"
    /\ Len(displayed) = 3
    /\ displayed[1].amount.v < displayed[2].amount.v
    /\ displayed[2].amount.v < displayed[3].amount.v
    /\ displayed # FilterOutput

\* the place of an identifier in the order uuid() handed them out
IssueNumber(id) == CHOOSE n \in 1..(MaxUuid + 1) : toString(n) = id

\* the transactions of the list in the order the store's operations give
\* them: most recently added first
InsertionOrder(list) ==
    LET n == Len(list)
        rank(t) == Cardinality({i \in DOMAIN list :
                                   IssueNumber(list[i].id) > IssueNumber(t.id)}) + 1
    IN [k \in 1..n |-> CHOOSE t \in {list[i] : i \in DOMAIN list} : rank(t) = k]

\* C17: the display list is a function of the store contents, searchQuery,
\* filterType and sortType only: it is the pipeline applied to the store in
\* insertion order (most recent first), so transactions with equal sort keys
\* keep that order whatever was displayed earlier.
C17_DisplayIgnoresHistory ==
    displayed = sortStage(typeStage(searchStage(InsertionOrder(transactions), searchQuery),
                                    filterType), sortType)

\* C20: computing the display list or the analytics never changes the
\* Transaction Store: the store's sequence after a recomputation equals the
\* sequence before it, and the store stays in most-recent-first insertion
\* order.
C20_DerivationLeavesStore ==
    /\ [](transactions = InsertionOrder(transactions))
    /\ [][Rendered' => transactions' = transactions]_vars

\* C18: for every goal in the store progressPercent = currentAmount /
\* targetAmount * 100, remaining = targetAmount - currentAmount and
\* isCompleted holds exactly when currentAmount >= targetAmount; for every
\* goal the store's operations can produce, progressPercent is between 0 and
\* 100 and isCompleted holds exactly when remaining = 0.
C18_ProgressWithinBounds ==
    \A i \in DOMAIN savingsGoals :
        LET goal == savingsGoals[i]
            c == goal.currentAmount
            t == goal.targetAmount
        IN /\ (c.k = "num" /\ Positive(t)) =>
                 /\ progress(goal).k = "num"
                 /\ progress(goal).v * t.v = c.v * 100
                 /\ remaining(goal) = Num(t.v - c.v)
                 /\ isCompleted(goal) <=> c.v >= t.v
           /\ progress(goal).k = "num"
           /\ progress(goal).v >= 0
           /\ progress(goal).v <= 100
           /\ isCompleted(goal) <=> remaining(goal) = Num(0)

\* C19: in every reachable state of the Savings Goal Store the goal ids are
\* pairwise distinct (ids come from Date.now() in the add form, and goals may
\* have been rehydrated from storage).
C19_GoalIdsDistinct == NoDuplicateIds(savingsGoals)

\* C21 as stated: on return from deleteSavingsGoal(id) the goal with that id
\* is no longer in the list and a persist has been triggered.
C21_DeleteOnReturn ==
    [][last'.op = "deleteSavingsGoal" =>
          /\ last'.id \notin IdsOf(savingsGoals')
          /\ Len(writes') = Len(writes) + 1]_vars

\* C21, amended: deleteSavingsGoal(id) opens the confirmation dialog and
\* returns with the list unchanged and nothing persisted; pressing the
\* dialog's Delete button removes the goals of that id, keeps the others in
\* order and triggers a persist of the remaining list; Cancel leaves the list
\* unchanged and triggers no persist.
C21_DeleteAfterConfirmation ==
    [][/\ last'.op = "deleteSavingsGoal" =>
             /\ savingsGoals' = savingsGoals
             /\ writes' = writes
             /\ dialogs' = Append(dialogs, last'.id)
       /\ last'.op = "confirmDelete" =>
             /\ last'.id \notin IdsOf(savingsGoals')
             /\ savingsGoals' = SelectSeq(savingsGoals, LAMBDA g : g.id # last'.id)
             /\ writes' = Append(writes, JSONStringify(savingsGoals'))
       /\ last'.op = "cancelDelete" =>
             /\ savingsGoals' = savingsGoals
             /\ writes' = writes]_vars

\* C21 witness: the Delete button has removed one of two goals, and the
\* persist of the remaining one is in flight.
C21_Witness ==
    /\ last.op = "confirmDelete"
    /\ Len(savingsGoals) = 1
    /\ last.id \notin IdsOf(savingsGoals)
    /\ writes # <<>>
    /\ writes[Len(writes)] = JSONStringify(savingsGoals)

\* the text entered as contribution is empty, or a number that is not positive
EmptyOrNonPositive(text) ==
    text = "" \/ (parseFloat(text).k = "num" /\ parseFloat(text).v <= 0)

\* C24: a contribution whose entered delta is empty, zero or negative is
\* rejected before any state mutation: the goal list is unchanged and no
\* persistence write is triggered.
C24_BadDeltaRejected ==
    [][\A i \in 1..(MaxGoals + 1), text \in AmountTexts :
          (EmptyOrNonPositive(text) /\ HandleAddMoney(i, text)) =>
              /\ savingsGoals' = savingsGoals
              /\ writes' = writes
              /\ storage' = storage
              /\ last'.alert = ErrAmount]_vars

\* C24 witness: a contribution to a goal that already holds money was turned
\* down, with nothing in flight.
C24_Witness ==
    /\ last.op = "handleAddMoney"
    /\ last.alert = ErrAmount
    /\ writes = <<>>
    /\ \E i \in DOMAIN savingsGoals :
          savingsGoals[i].id = last.id /\ Positive(savingsGoals[i].currentAmount)

\* C27: load() always completes: when the persistence read returns (absent
\* key, valid payload, malformed payload or read error) isLoading becomes
\* false, and it stays false for as long as the provider is mounted; goal
\* data is on screen only while isLoading is false.
C27_LoadCompletes ==
    /\ [](isLoading => goalsRendered(isLoading, savingsGoals) = <<>>)
    /\ [][/\ (LoadDone' => ~isLoading')
           /\ ((~isLoading /\ last'.op # "mount") => ~isLoading')]_vars

\* C27 witness: the read failed while a goal added during the load was in
\* the list; the load is over and the goal is on screen.
C27_Witness ==
    /\ LoadFailed
    /\ ~isLoading
    /\ goalsRendered(isLoading, savingsGoals) # <<>>

\* every goal of the list `part` is in the list `whole`
AllIn(part, whole) ==
    \A i \in DOMAIN part : \E j \in DOMAIN whole : whole[j] = part[i]

\* C28: a goal added through the add form while load() is in flight is not
\* lost: after load completes the list contains it together with every goal
\* read from storage, and the next persisted payload contains it too.
C28_AddDuringLoadKept ==
    [][LoadDone' =>
          /\ AllIn(savingsGoals, savingsGoals')
          /\ ((last'.op = "loadResolve" /\ storage.kind = "json") =>
                AllIn(JSONParse(storage), savingsGoals'))
          /\ (writes' # writes =>
                IdsOf(savingsGoals) \subseteq IdsOf(JSONParse(writes'[Len(writes')])))]_vars

\* C29: a failed load (read error or malformed payload) does not by itself
\* overwrite durable state: it issues no persistence write, so the payload
\* that was in storage is still there.
C29_FailedLoadIssuesNoWrite ==
    [][LoadFailed' => (writes' = writes /\ storage' = storage)]_vars

\* C30: every goal that enters the store through the add form or a
\* contribution has a numeric targetAmount > 0 and a numeric currentAmount;
\* a target or contribution text that does not parse to a number never
\* reaches addSavingsGoal or updateSavingsGoal.
C30_OnlyNumbersEnter ==
    /\ \A i \in DOMAIN savingsGoals :
          /\ Positive(savingsGoals[i].targetAmount)
          /\ savingsGoals[i].currentAmount.k = "num"
    /\ GoalAdded => Positive(last.amount)
    /\ (last.op = "handleAddMoney" /\ last.alert = OkAdded) => Positive(last.amount)

\* the title is blank, or the amount is missing, not a number or not positive
BadExpenseForm(form) ==
    \/ form.title \in {"", " "}
    \/ form.amount = ""
    \/ ~Positive(parseFloat(form.amount))

\* every transaction has a non-blank title, a numeric amount > 0 and a type
\* of income or expense
TransactionsValid ==
    \A i \in DOMAIN transactions :
        /\ transactions[i].title \notin {"", " "}
        /\ Positive(transactions[i].amount)
        /\ transactions[i].type \in {"income", "expense"}

\* C25: every transaction in the store has a non-blank title, a numeric
\* amount > 0 and a type of income or expense; a submission with a blank
\* title or a missing, non-numeric or non-positive amount leaves the store
\* unchanged.
C25_TransactionsValid ==
    /\ []TransactionsValid
    /\ [][\A form \in ExpenseForm :
            (BadExpenseForm(form) /\ AddExpense(form)) =>
                /\ transactions' = transactions
                /\ last'.alert \in {ErrTitle, ErrAmount}]_vars

\* C25 witness: with two transactions in the store, a submission was turned
\* down for its amount.
C25_Witness ==
    /\ last.op = "addExpense"
    /\ last.alert = ErrAmount
    /\ Len(transactions) = 2

\* C23: last-write-wins on the goals key: once every persistence write
\* issued has completed successfully and no load or mutation is pending, the
\* durable payload equals the goal list in memory, in whatever order the
\* writes completed.
C23_LastWriteWins ==
    (writes = <<>> /\ ~rejected /\ ~isLoading) => storage = JSONStringify(savingsGoals)

\* C22: the Transaction Store is reset on each session start: after a logout
\* followed by a login the list is empty.
C22_ResetOnSessionStart ==
    [][(last.op = "logout" /\ last'.op = "login" /\ user' # NoUser) =>
          transactions' = <<>>]_vars

\* C26: the Transaction Store has a single owning context: a screen under
\* the tabs layout observes the same list as the expenses screens.
C26_SingleOwningContext ==
    tabTransactions.mounted => tabScreenTransactions = transactions

====
